---- MODULE Spec2Model ----
(***************************************************************************)
(* The earnings batch of process-earnings.js: main fetches the symbol      *)
(* universe, cuts it into batches, runs processSymbol for every symbol of  *)
(* a batch concurrently, joins on the batch, sleeps between batches and    *)
(* keeps three counters.  processSymbol fetches the earnings calendar and  *)
(* the price history of one symbol, estimates the average earnings move,   *)
(* picks the next earnings date and stores the summary in Redis.           *)
(*                                                                         *)
(* Dates.  A date string "YYYY-MM-DD" is written as its day number; a Date *)
(* object is written as its time value in milliseconds.  new Date(string)  *)
(* is ParseDate, date.toISOString().split('T')[0] is FormatDate.  A string *)
(* that does not parse is NaD and its time value is NaN.                   *)
(*                                                                         *)
(* Prices.  A price array is written as the points it holds in the days    *)
(* the model looks at (pts, in array order) and the number of older points *)
(* it holds besides (old); its length is old + Len(pts).  An older point   *)
(* matches no date string the search tries.                                *)
(*                                                                         *)
(* Moves are kept in hundredths of a percent.  The closes the model draws  *)
(* make every percentMove a whole number of hundredths, and no average of  *)
(* at most MaxEvents + 1 of them lies half way between two hundredths, so  *)
(* toFixed(2) is rounding to the nearest hundredth.                        *)
(***************************************************************************)
EXTENDS Integers, Sequences, FiniteSets, TLC

VARIABLES
    pc,          \* where main is: start, aborted, group, cooldown, done, rejected
    listResp,    \* the HTTP response getAllSymbols received (NoResponse before)
    SYMBOLS,     \* the universe, main:156
    batchSize,   \* the group size (BATCH_SIZE in the program)
    i,           \* main's loop index, 0-based, main:165
    processed,   \* main:160
    successful,  \* main:161
    failed,      \* main:162
    call,        \* call[k]: the processSymbol call for position k of SYMBOLS
    cache,       \* the Redis store: a set of [key, value]
    cooldowns,   \* how many times main called sleep
    requests,    \* provider requests issued since the current batch started
    now,         \* the clock, in milliseconds
    probe,       \* one findPriceOnDate application: its inputs and its result
    sent,        \* sent[k]: the requests call k has issued, by kind
    heard        \* heard[k]: the clock reading and the answers call k took in

vars == <<pc, listResp, SYMBOLS, batchSize, i, processed, successful, failed,
          call, cache, cooldowns, requests, now, probe, sent, heard>>

(***************************************************************************)
(* Program constants.                                                      *)
(***************************************************************************)
BATCH_SIZE == 900
DAY_MS == 86400000
LOOKBACK == 5
MIN_PRICE_POINTS == 10

(***************************************************************************)
(* Bounds of the model.                                                    *)
(***************************************************************************)
MaxSymbols == 3      \* longest universe of Spec
MaxBatchSize == 2    \* largest group size of Spec
MaxEvents == 2       \* longest earnings list of SpecSymbol
MaxPts == 2          \* most in-range price points of SpecSymbol
MaxSeries == 3       \* longest series of SpecLocate

Min(a, b) == IF a < b THEN a ELSE b
Abs(x) == IF x < 0 THEN -x ELSE x

SeqsUpTo(S, n) == UNION {[1..m -> S] : m \in 0..n}

(***************************************************************************)
(* Days of the model.  Today0 is the day the run starts on; every search   *)
(* window of the model stays in positive time.                             *)
(***************************************************************************)
Today0 == 3 * LOOKBACK
PastDay == Today0 - 9
NaD == -1
NaN == -1

ParseDate(s) == IF s = NaD THEN NaN ELSE s * DAY_MS

FormatDate(t) == t \div DAY_MS

(***************************************************************************)
(* HTTP responses and fetchJSON.  status 0 is a transport error.           *)
(***************************************************************************)
InvalidJSON == [kind |-> "invalid"]
JsonNull == [kind |-> "null"]
NotFoundMarker == [kind |-> "notFound"]
NoResponse == [status |-> -1, body |-> JsonNull]

Response(status, body) == [status |-> status, body |-> body]

fetchJSON(res) ==
    IF res.status = 200
    THEN IF res.body.kind = "invalid"
         THEN [ok |-> FALSE, value |-> JsonNull]
         ELSE [ok |-> TRUE, value |-> res.body]
    ELSE IF res.status = 404
         THEN [ok |-> TRUE, value |-> NotFoundMarker]
         ELSE [ok |-> FALSE, value |-> JsonNull]

\* getAllSymbols with a catch block that returns an empty list and goes on.
getAllSymbolsLenient(res) ==
    LET r == fetchJSON(res) IN
    IF r.ok /\ r.value.kind = "array"
    THEN [ok |-> TRUE, symbols |-> r.value.items]
    ELSE [ok |-> TRUE, symbols |-> <<>>]

\* getAllSymbols taking the not-found marker for an empty exchange.
getAllSymbolsNotFoundEmpty(res) ==
    LET r == fetchJSON(res) IN
    IF r.ok /\ r.value.kind = "array"
    THEN [ok |-> TRUE, symbols |-> r.value.items]
    ELSE IF r.ok /\ r.value.kind = "notFound"
         THEN [ok |-> TRUE, symbols |-> <<>>]
         ELSE [ok |-> FALSE, symbols |-> <<>>]

(***************************************************************************)
(* getAllSymbols: the codes of the list, or the process exits.             *)
(***************************************************************************)
getAllSymbols(res) ==
    LET r == fetchJSON(res) IN
    IF r.ok /\ r.value.kind = "array"
    THEN [ok |-> TRUE, symbols |-> r.value.items]
    ELSE [ok |-> FALSE, symbols |-> <<>>]

(***************************************************************************)
(* findPriceOnDate.  priceData.find returns the first point of the array   *)
(* with the date string; the result is null or parseFloat(match.close).    *)
(***************************************************************************)
PriceNull == [found |-> FALSE, price |-> 0]

FirstMatch(pts, ds) ==
    LET hits == {j \in 1..Len(pts) : pts[j].date = ds} IN
    IF hits = {} THEN 0 ELSE CHOOSE j \in hits : \A h \in hits : j <= h

RECURSIVE FindFrom(_, _, _)
FindFrom(pts, targetDate, n) ==
    IF n >= LOOKBACK THEN PriceNull
    ELSE LET dateToTry == targetDate - n * DAY_MS
             dateString == FormatDate(dateToTry)
             m == FirstMatch(pts, dateString)
         IN IF m # 0 THEN [found |-> TRUE, price |-> pts[m].close]
            ELSE FindFrom(pts, targetDate, n + 1)

\* findPriceOnDate with the loop started at i = 1: the target day is not tried.
findPriceOnDateFromOne(pts, targetDate) == FindFrom(pts, targetDate, 1)

findPriceOnDate(pts, targetDate) == FindFrom(pts, targetDate, 0)

\* JavaScript truthiness of a findPriceOnDate result: null and 0 are falsy.
Truthy(p) == p.found /\ p.price # 0

(***************************************************************************)
(* Steps 3 and 4 of processSymbol: the moves, their average, the next      *)
(* earnings date.                                                          *)
(***************************************************************************)
percentMove(beforePrice, afterPrice) ==
    (Abs(afterPrice - beforePrice) * 10000) \div beforePrice

\* The test of line 100 on the two prices found around an earnings date.
IsValidMove(beforePrice, afterPrice) ==
    Truthy(beforePrice) /\ Truthy(afterPrice) /\ beforePrice.price > 0

beforePriceOf(pts, date) == findPriceOnDate(pts, ParseDate(date) - DAY_MS)

afterPriceOf(pts, date) == findPriceOnDate(pts, ParseDate(date) + DAY_MS)

RECURSIVE MovesOf(_, _)
MovesOf(events, pts) ==
    IF events = <<>> THEN <<>>
    ELSE LET b == beforePriceOf(pts, Head(events))
             a == afterPriceOf(pts, Head(events))
         IN (IF IsValidMove(b, a) THEN <<percentMove(b.price, a.price)>> ELSE <<>>)
            \o MovesOf(Tail(events), pts)

RECURSIVE Sum(_)
Sum(s) == IF s = <<>> THEN 0 ELSE Head(s) + Sum(Tail(s))

\* parseFloat((sum / length).toFixed(2)), in hundredths.
avgMoveOf(moves) == (2 * Sum(moves) + Len(moves)) \div (2 * Len(moves))

IsFuture(date, today) == ParseDate(date) > today

futureEarnings(events, today) == SelectSeq(events, LAMBDA e : IsFuture(e, today))

NullDate == 0

\* nextDateOf without the filter of line 114: the first event of the list.
nextDateOfFirst(events, today) ==
    IF Len(events) > 0 THEN events[1] ELSE NullDate

nextDateOf(events, today) ==
    LET future == futureEarnings(events, today) IN
    IF Len(future) > 0 THEN future[1] ELSE NullDate

\* toISOString of an invalid Date throws a RangeError inside findPriceOnDate.
ThrowsOnDates(events) == \E j \in 1..Len(events) : ParseDate(events[j]) = NaN

(***************************************************************************)
(* What a processSymbol call settles with.                                 *)
(***************************************************************************)
Pending == [kind |-> "pending", symbol |-> 0, nextDate |-> NullDate,
            avgMove |-> 0, lastUpdated |-> 0]

NullResult == [kind |-> "null", symbol |-> 0, nextDate |-> NullDate,
               avgMove |-> 0, lastUpdated |-> 0]

Rejected == [kind |-> "rejected", symbol |-> 0, nextDate |-> NullDate,
             avgMove |-> 0, lastUpdated |-> 0]

Summary(symbol, nextDate, avgMove, clock) ==
    [kind |-> "summary", symbol |-> symbol, nextDate |-> nextDate,
     avgMove |-> avgMove, lastUpdated |-> clock]

\* CaughtResult without the catch block: the call rejects.
RethrownResult == Rejected

\* The catch block of processSymbol: the error is logged and null returned.
CaughtResult == NullResult

CacheKey(symbol) == <<"earnings", symbol>>

IdleCall == [st |-> "idle", today |-> 0, earnings |-> <<>>, moves |-> <<>>,
             result |-> Pending, reason |-> "none"]

StartedCall(clock) == [IdleCall EXCEPT !.st = "awaitCal", !.today = clock]

\* A call that returned (or threw): its locals are gone.
SettledCall(result, reason) ==
    [IdleCall EXCEPT !.st = "settled", !.result = result, !.reason = reason]

IsSettled(c) == c.st = "settled"

\* The reasons logged by the catch block (console.error, line 136); the other
\* reasons are the console.log lines of the early returns and of line 132.
ErrorReasons == {"calendarError", "priceError", "dateError", "storeError"}

SkipReasons == {"noEarnings", "insufficientPrices", "noMoves", "noFuture"}

(***************************************************************************)
(* processSymbol, one resumption at a time.  Each operator gives the call  *)
(* as it is when the resumption ends: awaiting the next response, or       *)
(* settled.                                                                *)
(***************************************************************************)
\* NoEarnings without the length test: an empty list passes.
NoEarningsLengthUntested(value) ==
    \/ value.kind # "object"
    \/ ~value.hasEarnings

\* The test of line 77, on a value that is not null.
NoEarnings(value) ==
    \/ value.kind # "object"
    \/ ~value.hasEarnings
    \/ Len(value.earnings) = 0

\* InsufficientPrices with <= for <: a series of exactly ten is skipped too.
InsufficientPricesInclusive(value) ==
    \/ value.kind # "array"
    \/ value.old + Len(value.pts) <= MIN_PRICE_POINTS

\* The test of line 86, on a value that is not null.
InsufficientPrices(value) ==
    \/ value.kind # "array"
    \/ value.old + Len(value.pts) < MIN_PRICE_POINTS

\* AfterCalendar with a retry: a failed calendar fetch is issued again.
AfterCalendarRetrying(c, res) ==
    LET r == fetchJSON(res) IN
    IF ~r.ok \/ r.value.kind = "null"
    THEN c
    ELSE IF NoEarnings(r.value)
         THEN SettledCall(NullResult, "noEarnings")
         ELSE [c EXCEPT !.st = "awaitPrice", !.earnings = r.value.earnings]

\* Lines 75-84: the calendar response arrives.
AfterCalendar(c, res) ==
    LET r == fetchJSON(res) IN
    IF ~r.ok \/ r.value.kind = "null"
    THEN SettledCall(CaughtResult, "calendarError")
    ELSE IF NoEarnings(r.value)
         THEN SettledCall(NullResult, "noEarnings")
         ELSE [c EXCEPT !.st = "awaitPrice", !.earnings = r.value.earnings]

\* Lines 84-130: the price response arrives.
AfterPrice(c, symbol, res, clock) ==
    LET r == fetchJSON(res) IN
    IF ~r.ok \/ r.value.kind = "null"
    THEN SettledCall(CaughtResult, "priceError")
    ELSE IF InsufficientPrices(r.value)
         THEN SettledCall(NullResult, "insufficientPrices")
         ELSE IF ThrowsOnDates(c.earnings)
              THEN SettledCall(CaughtResult, "dateError")
              ELSE LET moves == MovesOf(c.earnings, r.value.pts)
                       nextDate == nextDateOf(c.earnings, c.today)
                   IN IF Len(moves) = 0
                      THEN SettledCall(NullResult, "noMoves")
                      ELSE IF nextDate = NullDate
                           THEN SettledCall(NullResult, "noFuture")
                           ELSE [c EXCEPT
                                   !.st = "awaitSet",
                                   !.moves = moves,
                                   !.result = Summary(symbol, nextDate,
                                                      avgMoveOf(moves), clock)]

\* AfterSet with the write error swallowed: the summary is returned anyway.
AfterSetKeepsResult(c, ok) ==
    IF ok THEN SettledCall(c.result, "stored")
    ELSE SettledCall(c.result, "storeError")

\* Lines 130-138: redis.set answers.
AfterSet(c, ok) ==
    IF ok THEN SettledCall(c.result, "stored")
    ELSE SettledCall(CaughtResult, "storeError")

\* CacheSet as an append: the earlier value stays beside the new one.
CacheSetAppend(store, key, value) ==
    store \cup {[key |-> key, value |-> value]}

\* redis.set(key, value): the value replaces whatever the key held.
CacheSet(store, key, value) ==
    {e \in store : e.key # key} \cup {[key |-> key, value |-> value]}

(***************************************************************************)
(* main.                                                                   *)
(***************************************************************************)
\* Batch with a slice one too long: it takes the next batch's first symbol.
BatchOverlapping(syms, size, i0) == (i0 + 1)..Min(i0 + size + 1, Len(syms))

\* SYMBOLS.slice(i, i + BATCH_SIZE), as positions 1..Len(SYMBOLS).
Batch(syms, size, i0) == (i0 + 1)..Min(i0 + size, Len(syms))

\* BatchJoined as Promise.race would have it: one settled call is enough.
BatchJoinedAny(calls, batch) == \E k \in batch : IsSettled(calls[k])

\* BatchJoined awaiting the first call of the batch only.
BatchJoinedFirst(calls, batch) ==
    \A k \in batch : (\A h \in batch : k <= h) => IsSettled(calls[k])

\* BatchJoined awaiting every call of the universe, the unstarted included.
BatchJoinedWhole(calls, batch) == \A k \in 1..Len(calls) : IsSettled(calls[k])

\* Promise.all resolves once every call of the batch has settled.
BatchJoined(calls, batch) == \A k \in batch : IsSettled(calls[k])

\* Promise.all rejects as soon as a call rejects; main's rejection goes to
\* console.error at line 190.
Joined(p, c) == IF c.result.kind = "rejected" THEN "rejected" ELSE p

\* Lines 172 and 173.
CountSuccessful(calls, batch) ==
    Cardinality({k \in batch : calls[k].result.kind # "null"})

\* CountFailed counting the logged errors only, not the skips.
CountFailedErrorsOnly(calls, batch) ==
    Cardinality({k \in batch : calls[k].reason \in ErrorReasons})

CountFailed(calls, batch) ==
    Cardinality({k \in batch : calls[k].result.kind = "null"})

\* NeedCooldown with <= for <: a pause after the last full batch too.
NeedCooldownInclusive(i0, size, n) == i0 + size <= n

\* Line 178.
NeedCooldown(i0, size, n) == i0 + size < n

\* The loop test of line 165 and, when it holds, lines 166-169: every call
\* of the batch runs up to its first await, which issues its calendar request.
EnterLoop(i0, syms, calls) ==
    /\ i' = i0
    /\ IF i0 < Len(syms)
       THEN /\ pc' = "group"
            /\ call' = [k \in 1..Len(syms) |->
                          IF k \in Batch(syms, batchSize, i0)
                          THEN StartedCall(now) ELSE calls[k]]
            /\ requests' = Cardinality(Batch(syms, batchSize, i0))
       ELSE /\ pc' = "done"
            /\ call' = calls
            /\ UNCHANGED requests

\* Lines 156-169: the symbol list answers.
ListResponse(res) ==
    /\ pc = "start"
    /\ listResp' = res
    /\ LET got == getAllSymbols(res) IN
       IF got.ok
       THEN /\ SYMBOLS' = got.symbols
            /\ EnterLoop(0, got.symbols, [k \in 1..Len(got.symbols) |-> IdleCall])
       ELSE /\ pc' = "aborted"
            /\ UNCHANGED <<SYMBOLS, i, call, requests>>
    /\ UNCHANGED <<batchSize, processed, successful, failed, cache, cooldowns,
                   now, probe>>

CalendarResponse(k, res) ==
    /\ k \in 1..Len(call)
    /\ call[k].st = "awaitCal"
    /\ LET c == AfterCalendar(call[k], res) IN
       /\ call' = [call EXCEPT ![k] = c]
       /\ requests' = requests + (IF c.st = "awaitPrice" THEN 1 ELSE 0)
       /\ pc' = Joined(pc, c)
    /\ UNCHANGED <<listResp, SYMBOLS, batchSize, i, processed, successful,
                   failed, cache, cooldowns, now, probe>>

PriceResponse(k, res) ==
    /\ k \in 1..Len(call)
    /\ call[k].st = "awaitPrice"
    /\ LET c == AfterPrice(call[k], SYMBOLS[k], res, now) IN
       /\ call' = [call EXCEPT ![k] = c]
       /\ pc' = Joined(pc, c)
    /\ UNCHANGED <<listResp, SYMBOLS, batchSize, i, processed, successful,
                   failed, cache, cooldowns, requests, now, probe>>

\* The store answers; a write it reports as failed may have been applied.
SetResponse(k, ok, applied) ==
    /\ k \in 1..Len(call)
    /\ call[k].st = "awaitSet"
    /\ ok => applied
    /\ LET c == AfterSet(call[k], ok) IN
       /\ call' = [call EXCEPT ![k] = c]
       /\ pc' = Joined(pc, c)
    /\ cache' = IF applied
                THEN CacheSet(cache, CacheKey(SYMBOLS[k]), call[k].result)
                ELSE cache
    /\ UNCHANGED <<listResp, SYMBOLS, batchSize, i, processed, successful,
                   failed, cooldowns, requests, now, probe>>

\* Lines 169-182: the batch has settled.
GroupSettled ==
    /\ pc = "group"
    /\ LET batch == Batch(SYMBOLS, batchSize, i) IN
       /\ BatchJoined(call, batch)
       /\ processed' = processed + Cardinality(batch)
       /\ successful' = successful + CountSuccessful(call, batch)
       /\ failed' = failed + CountFailed(call, batch)
    /\ IF NeedCooldown(i, batchSize, Len(SYMBOLS))
       THEN /\ pc' = "cooldown"
            /\ cooldowns' = cooldowns + 1
            /\ UNCHANGED <<i, call, requests>>
       ELSE /\ EnterLoop(i + batchSize, SYMBOLS, call)
            /\ UNCHANGED cooldowns
    /\ UNCHANGED <<listResp, SYMBOLS, batchSize, cache, now, probe>>

\* Lines 180 and 165-169: sleep is over, the next batch starts.
CooldownEnd ==
    /\ pc = "cooldown"
    /\ EnterLoop(i + batchSize, SYMBOLS, call)
    /\ UNCHANGED <<listResp, SYMBOLS, batchSize, processed, successful, failed,
                   cache, cooldowns, now, probe>>

(***************************************************************************)
(* The clock.  A run lasts minutes: it starts in the last millisecond of   *)
(* day Today0 and may cross that one midnight.                             *)
(***************************************************************************)
StartTime == Today0 * DAY_MS + (DAY_MS - 1)

Tick ==
    /\ pc \in {"start", "group", "cooldown"}
    /\ now = StartTime
    /\ now' = now + 1
    /\ UNCHANGED <<pc, listResp, SYMBOLS, batchSize, i, processed, successful,
                   failed, call, cache, cooldowns, requests, probe>>

(***************************************************************************)
(* The record of what each call sent and took in.  A resumption that ends  *)
(* with the call awaiting an answer has issued the request for it: the     *)
(* calendar fetch of line 75, the price fetch of line 84, the redis.set of *)
(* line 130.  heard is kept by the specifications whose properties speak   *)
(* of the answers; the others leave it empty.                              *)
(***************************************************************************)
NoneSent == [cal |-> 0, price |-> 0, set |-> 0]

NoneHeard == [today |-> 0, cal |-> NoResponse, price |-> NoResponse]

BumpSent(s, st) ==
    IF st = "awaitCal" THEN [s EXCEPT !.cal = @ + 1]
    ELSE IF st = "awaitPrice" THEN [s EXCEPT !.price = @ + 1]
    ELSE IF st = "awaitSet" THEN [s EXCEPT !.set = @ + 1]
    ELSE s

\* Position k is started by this step of main.
StartedNow(k) ==
    /\ call'[k].st = "awaitCal"
    /\ k > Len(call) \/ call[k].st # "awaitCal"

\* A step of main: the calls it starts issue their calendar requests.
SentStart ==
    sent' = [k \in 1..Len(call') |->
                LET old == IF k <= Len(sent) THEN sent[k] ELSE NoneSent IN
                IF StartedNow(k) THEN BumpSent(old, "awaitCal") ELSE old]

HeardStart ==
    heard' = [k \in 1..Len(call') |->
                IF StartedNow(k) THEN [NoneHeard EXCEPT !.today = call'[k].today]
                ELSE IF k <= Len(heard) THEN heard[k] ELSE NoneHeard]

\* A resumption of call k.
SentAfter(k) == sent' = [sent EXCEPT ![k] = BumpSent(@, call'[k].st)]

HeardCalendar(k, res) == heard' = [heard EXCEPT ![k].cal = res]

HeardPrice(k, res) == heard' = [heard EXCEPT ![k].price = res]

(***************************************************************************)
(* What the providers may answer.  Spec runs universes of up to MaxSymbols *)
(* symbols with answers that reach every outcome of processSymbol, and its *)
(* clock advances during the sleeps; SpecSymbol below runs one symbol with *)
(* every answer of the bounds and a clock that advances at any time.       *)
(***************************************************************************)
Codes(n) == [k \in 1..n |-> k]

ListBody(codes) == [kind |-> "array", items |-> codes]

EarningsBody(events) == [kind |-> "object", hasEarnings |-> TRUE, earnings |-> events]

NoEarningsBody == [kind |-> "object", hasEarnings |-> FALSE, earnings |-> <<>>]

PriceBody(old, pts) == [kind |-> "array", old |-> old, pts |-> pts]

Point(date, close) == [date |-> date, close |-> close]

\* Answers that carry no usable body: a transport error, a server error,
\* a 404, a 200 whose body is not JSON, a 200 whose body is null.
BadResponses ==
    {Response(0, JsonNull), Response(500, JsonNull), Response(404, JsonNull),
     Response(200, InvalidJSON), Response(200, JsonNull)}

ListResponses ==
    BadResponses \cup {Response(200, NoEarningsBody)}
    \cup {Response(200, ListBody(Codes(n))) : n \in 0..MaxSymbols}

Tomorrow == Today0 + 1
Later == Today0 + 2

\* A move of 100 percent around PastDay.
GoodPoints == <<Point(PastDay - 1, 100), Point(PastDay + 1, 200)>>

CalendarResponses ==
    BadResponses
    \cup {Response(200, EarningsBody(e)) :
            e \in {<<>>, <<PastDay>>, <<PastDay, Tomorrow>>, <<NaD>>}}

PriceResponses ==
    BadResponses
    \cup {Response(200, PriceBody(MIN_PRICE_POINTS, <<>>)),
          Response(200, PriceBody(MIN_PRICE_POINTS - 3, GoodPoints)),
          Response(200, PriceBody(MIN_PRICE_POINTS - 2, GoodPoints))}

NoProbe == [series |-> <<>>, target |-> 0, result |-> PriceNull, done |-> FALSE]

Init ==
    /\ pc = "start"
    /\ listResp = NoResponse
    /\ SYMBOLS = <<>>
    /\ batchSize \in 1..MaxBatchSize
    /\ i = 0
    /\ processed = 0
    /\ successful = 0
    /\ failed = 0
    /\ call = <<>>
    /\ cache = {}
    /\ cooldowns = 0
    /\ requests = 0
    /\ now = StartTime
    /\ probe = NoProbe
    /\ sent = <<>>
    /\ heard = <<>>

Next ==
    \/ \E res \in ListResponses :
          ListResponse(res) /\ SentStart /\ UNCHANGED heard
    \/ \E k \in 1..MaxSymbols, res \in CalendarResponses :
          CalendarResponse(k, res) /\ SentAfter(k) /\ UNCHANGED heard
    \/ \E k \in 1..MaxSymbols, res \in PriceResponses :
          PriceResponse(k, res) /\ SentAfter(k) /\ UNCHANGED heard
    \/ \E k \in 1..MaxSymbols, ok \in BOOLEAN, applied \in BOOLEAN :
          SetResponse(k, ok, applied) /\ SentAfter(k) /\ UNCHANGED heard
    \/ GroupSettled /\ SentStart /\ UNCHANGED heard
    \/ CooldownEnd /\ SentStart /\ UNCHANGED heard
    \/ pc = "cooldown" /\ Tick /\ UNCHANGED <<sent, heard>>

Spec == Init /\ [][Next]_vars

\* Spec with every request answered in the end, every timer of sleep fired
\* and every continuation run: a step stays possible until it is taken.
FairSpec == Spec /\ WF_vars(Next)

(***************************************************************************)
(* SpecSymbol: one symbol, with every earnings list and every price array  *)
(* of the bounds.  The dates of the lists parse; the list with a date that *)
(* does not is among the answers of Spec.                                  *)
(***************************************************************************)
EventDates == {PastDay, Tomorrow, Later}

Closes == {-100, 0, 100, 200}

PriceDays == {PastDay - 1, PastDay + 1, Today0}

Points == {Point(d, c) : d \in PriceDays, c \in Closes}

\* With this many older points an array of MaxPts in-range points is
\* MIN_PRICE_POINTS long, and an array of fewer is too short.
OldCount == MIN_PRICE_POINTS - MaxPts

SymbolCalendarResponses ==
    BadResponses
    \cup {Response(200, NoEarningsBody)}
    \cup {Response(200, EarningsBody(e)) : e \in SeqsUpTo(EventDates, MaxEvents)}

SymbolPriceResponses ==
    BadResponses
    \cup {Response(200, NoEarningsBody)}
    \cup {Response(200, PriceBody(OldCount, pts)) : pts \in SeqsUpTo(Points, MaxPts)}

InitSymbol ==
    /\ Init
    /\ batchSize = 1

NextSymbol ==
    \/ ListResponse(Response(200, ListBody(Codes(1)))) /\ SentStart /\ HeardStart
    \/ \E res \in SymbolCalendarResponses :
          CalendarResponse(1, res) /\ SentAfter(1) /\ HeardCalendar(1, res)
    \/ \E res \in SymbolPriceResponses :
          PriceResponse(1, res) /\ SentAfter(1) /\ HeardPrice(1, res)
    \/ \E ok \in BOOLEAN, applied \in BOOLEAN :
          SetResponse(1, ok, applied) /\ SentAfter(1) /\ UNCHANGED heard
    \/ GroupSettled /\ SentStart /\ HeardStart
    \/ Tick /\ UNCHANGED <<sent, heard>>

SpecSymbol == InitSymbol /\ [][NextSymbol]_vars

(***************************************************************************)
(* SpecTwice: the pipeline run twice for one symbol.  The universe lists   *)
(* the same code at two positions, so processSymbol runs twice with the    *)
(* same cache key, in one group or in two; each run hears one of two       *)
(* calendars and one of two price series, or a failure.                    *)
(***************************************************************************)
Doubled == <<1, 1>>

HalvedPoints == <<Point(PastDay - 1, 200), Point(PastDay + 1, 100)>>

TwiceCalendarResponses ==
    {Response(500, JsonNull),
     Response(200, EarningsBody(<<PastDay, Tomorrow>>)),
     Response(200, EarningsBody(<<PastDay, Later>>))}

TwicePriceResponses ==
    {Response(500, JsonNull),
     Response(200, PriceBody(MIN_PRICE_POINTS, GoodPoints)),
     Response(200, PriceBody(MIN_PRICE_POINTS, HalvedPoints))}

NextTwice ==
    \/ ListResponse(Response(200, ListBody(Doubled))) /\ SentStart /\ HeardStart
    \/ \E k \in 1..Len(Doubled), res \in TwiceCalendarResponses :
          CalendarResponse(k, res) /\ SentAfter(k) /\ HeardCalendar(k, res)
    \/ \E k \in 1..Len(Doubled), res \in TwicePriceResponses :
          PriceResponse(k, res) /\ SentAfter(k) /\ HeardPrice(k, res)
    \/ \E k \in 1..Len(Doubled), ok \in BOOLEAN, applied \in BOOLEAN :
          SetResponse(k, ok, applied) /\ SentAfter(k) /\ UNCHANGED heard
    \/ GroupSettled /\ SentStart /\ HeardStart
    \/ CooldownEnd /\ SentStart /\ HeardStart
    \/ Tick /\ UNCHANGED <<sent, heard>>

SpecTwice == Init /\ [][NextTwice]_vars

(***************************************************************************)
(* SpecLocate: findPriceOnDate applied once to every series of the bounds. *)
(* The series holds points in and around the five days the search tries.   *)
(***************************************************************************)
LocDay == PastDay

LocDays == {LocDay - LOOKBACK, LocDay - (LOOKBACK - 1), LocDay - 1, LocDay, LocDay + 1}

LocPoints == {Point(d, c) : d \in LocDays, c \in {0, 100}}

LocTargets == {LocDay * DAY_MS, LocDay * DAY_MS + (DAY_MS - 1)}

InitLocate ==
    /\ pc = "start"
    /\ listResp = NoResponse
    /\ SYMBOLS = <<>>
    /\ batchSize = BATCH_SIZE
    /\ i = 0
    /\ processed = 0
    /\ successful = 0
    /\ failed = 0
    /\ call = <<>>
    /\ cache = {}
    /\ cooldowns = 0
    /\ requests = 0
    /\ now = StartTime
    /\ sent = <<>>
    /\ heard = <<>>
    /\ \E series \in SeqsUpTo(LocPoints, MaxSeries), target \in LocTargets :
          probe = [series |-> series, target |-> target, result |-> PriceNull,
                   done |-> FALSE]

Locate ==
    /\ ~probe.done
    /\ probe' = [probe EXCEPT !.result = findPriceOnDate(probe.series, probe.target),
                              !.done = TRUE]
    /\ UNCHANGED <<pc, listResp, SYMBOLS, batchSize, i, processed, successful,
                   failed, call, cache, cooldowns, requests, now, sent, heard>>

SpecLocate == InitLocate /\ [][Locate]_vars

(***************************************************************************)
(* SpecRate: the program's own BATCH_SIZE and a universe one symbol longer,*)
(* on the schedule where the answers of a batch arrive in position order:  *)
(* first every calendar answer, then every price answer, then every store  *)
(* answer.  Every provider answers with data that yields a summary.  The   *)
(* record of the single calls is not kept.                                 *)
(***************************************************************************)
RATE_CEILING == 1000

\* In position order the calls of a stage are a run of positions: k is the
\* first of them when its predecessor is in another stage.
FirstIn(stage, k) ==
    /\ k \in 1..Len(call)
    /\ call[k].st = stage
    /\ k > 1 => call[k - 1].st # stage

FirstOf(stage) == {k \in 1..Len(call) : FirstIn(stage, k)}

NoneIn(stage) == FirstOf(stage) = {}

InitRate ==
    /\ pc = "start"
    /\ listResp = NoResponse
    /\ SYMBOLS = <<>>
    /\ batchSize = BATCH_SIZE
    /\ i = 0
    /\ processed = 0
    /\ successful = 0
    /\ failed = 0
    /\ call = <<>>
    /\ cache = {}
    /\ cooldowns = 0
    /\ requests = 0
    /\ now = StartTime
    /\ probe = NoProbe
    /\ sent = <<>>
    /\ heard = <<>>

NextRate ==
    /\ \/ ListResponse(Response(200, ListBody(Codes(BATCH_SIZE + 1))))
       \/ /\ ~NoneIn("awaitCal")
          /\ CalendarResponse(CHOOSE k \in FirstOf("awaitCal") : TRUE,
                              Response(200, EarningsBody(<<PastDay, Tomorrow>>)))
       \/ /\ NoneIn("awaitCal")
          /\ ~NoneIn("awaitPrice")
          /\ PriceResponse(CHOOSE k \in FirstOf("awaitPrice") : TRUE,
                           Response(200, PriceBody(MIN_PRICE_POINTS, GoodPoints)))
       \/ /\ NoneIn("awaitCal")
          /\ NoneIn("awaitPrice")
          /\ ~NoneIn("awaitSet")
          /\ SetResponse(CHOOSE k \in FirstOf("awaitSet") : TRUE, TRUE, TRUE)
       \/ GroupSettled
       \/ CooldownEnd
    /\ UNCHANGED <<sent, heard>>

SpecRate == InitRate /\ [][NextRate]_vars

(***************************************************************************)
(* Properties.                                                             *)
(***************************************************************************)
Positions == 1..Len(call)

\* The 0-based number of the group position k belongs to.
GroupOf(k) == (k - 1) \div batchSize

Started(c) == c.st # "idle"

CeilDiv(a, b) == (a + b - 1) \div b

\* C1: no call of a later group has started unless every call of every
\* earlier group has settled.
C1_GroupsSequential ==
    \A j \in Positions, k \in Positions :
        (GroupOf(j) < GroupOf(k) /\ Started(call[k])) => IsSettled(call[j])

\* Both calls of the first group have settled, one with a summary and one
\* without, and the call of the second group is in flight.
C1_Witness ==
    \E j \in Positions, k \in Positions, m \in Positions :
        /\ j # k /\ GroupOf(j) = 0 /\ GroupOf(k) = 0 /\ GroupOf(m) = 1
        /\ call[j].result.kind = "summary"
        /\ call[k].result.kind = "null"
        /\ call[m].st = "awaitPrice"

\* C2: one cooldown between each pair of consecutive groups and none after
\* the last: ceil(n/g) - 1 cooldowns over a complete run, 0 for n = 0; a
\* cooldown runs with the preceding group settled and the next not started.
C2_Cooldowns ==
    LET n == Len(SYMBOLS) IN
    /\ pc = "done" =>
          cooldowns = IF n = 0 THEN 0 ELSE CeilDiv(n, batchSize) - 1
    /\ pc = "group" => cooldowns = i \div batchSize
    /\ pc = "cooldown" =>
          /\ cooldowns = i \div batchSize + 1
          /\ i + batchSize < n
          /\ \A k \in Positions :
                IF k <= i + batchSize THEN IsSettled(call[k])
                ELSE ~Started(call[k])

\* Three groups were run and two cooldowns taken.
C2_Witness ==
    /\ pc = "done"
    /\ Len(SYMBOLS) = 3
    /\ batchSize = 1
    /\ cooldowns = 2

\* C3: an error raised in one call settles that call with null, changes no
\* other call and does not stop main; a run that ends has settled every
\* call.
C3_Isolation ==
    /\ [](pc = "done" => \A k \in Positions : IsSettled(call[k]))
    /\ [][\A k \in Positions :
            (/\ Len(call') = Len(call)
             /\ ~IsSettled(call[k])
             /\ call'[k].reason \in ErrorReasons)
            => /\ call'[k].result = NullResult
               /\ IsSettled(call'[k])
               /\ \A j \in Positions \ {k} : call'[j] = call[j]
               /\ pc' = pc]_vars

\* A call of the first group failed with an error, another call of the same
\* group and a call of the next group stored their summaries, the run ended.
C3_Witness ==
    /\ pc = "done"
    /\ \E j \in Positions, k \in Positions, m \in Positions :
          /\ j # k /\ GroupOf(j) = 0 /\ GroupOf(k) = 0 /\ GroupOf(m) = 1
          /\ call[j].reason = "priceError"
          /\ call[k].result.kind = "summary"
          /\ call[m].result.kind = "summary"
          /\ \E e \in cache : e.key = CacheKey(SYMBOLS[k])

\* C4: successful + failed = processed <= |universe| always; at the end
\* processed = |universe|, successful counts the summaries and failed every
\* call without one, skip and error alike.
C4_Counters ==
    /\ successful + failed = processed
    /\ processed <= Len(SYMBOLS)
    /\ pc = "done" =>
          /\ processed = Len(SYMBOLS)
          /\ successful =
                Cardinality({k \in Positions : call[k].result.kind = "summary"})
          /\ failed =
                Cardinality({k \in Positions : call[k].reason \in ErrorReasons
                                               \/ call[k].reason \in SkipReasons})

\* A finished run with a summary, a skip and an error.
C4_Witness ==
    /\ pc = "done"
    /\ successful = 1
    /\ failed = 2
    /\ \E k \in Positions : call[k].reason \in SkipReasons
    /\ \E k \in Positions : call[k].reason \in ErrorReasons

\* C5: with the default group size of 900, the calendar and price requests
\* issued during one group never exceed the ceiling of 1000.
C5_RequestsUnderCeiling ==
    batchSize = BATCH_SIZE => requests <= RATE_CEILING

\* What getAllSymbols needs from the provider: a 200 whose body is an array.
IsList(res) == res.status = 200 /\ res.body.kind = "array"

\* C6: the run aborts exactly when the symbol list is not obtained, and then
\* no call was started and nothing was written; once the list is obtained
\* no step leads to the aborted state, main never rejects, a settled batch
\* lets main go on and the sleep ends with the next batch started.
C6_OnlyUniverseFailureAborts ==
    /\ [](pc # "start" => (pc = "aborted" <=> ~IsList(listResp)))
    /\ [](pc = "aborted" => SYMBOLS = <<>> /\ call = <<>> /\ cache = {})
    /\ [](pc \in {"start", "aborted", "group", "cooldown", "done"})
    /\ [][pc # "start" => pc' # "aborted"]_vars
    /\ []((pc = "group" /\ \A k \in Batch(SYMBOLS, batchSize, i) : IsSettled(call[k]))
            => ENABLED GroupSettled)
    /\ [][pc = "cooldown" /\ pc' # "cooldown"
            => /\ pc' = "group"
               /\ \A k \in Batch(SYMBOLS, batchSize, i') : call'[k].st = "awaitCal"]_vars

\* The second group is running after a first group in which one call
\* failed on its fetch and the other on its cache write.
C6_Witness ==
    /\ pc = "group"
    /\ i > 0
    /\ \E j \in Positions, k \in Positions, m \in Positions :
          /\ GroupOf(j) = 0 /\ call[j].reason = "calendarError"
          /\ GroupOf(k) = 0 /\ call[k].reason = "storeError"
          /\ GroupOf(m) = 1 /\ call[m].st = "awaitPrice"

\* The points of the probed series dated in the window [target-4, target].
InWindow ==
    LET target == FormatDate(probe.target) IN
    {j \in 1..Len(probe.series) :
        probe.series[j].date \in (target - 4)..target}

\* The points of the window with the latest date.
LatestInWindow ==
    {j \in InWindow : \A h \in InWindow : probe.series[h].date <= probe.series[j].date}

\* C7: findPriceOnDate finds a price iff the series has a point dated in
\* [target-4, target], and then the close of the point of that window with
\* the latest date (the first such point of the array).
C7_LocatorWindow ==
    probe.done =>
        /\ probe.result.found <=> InWindow # {}
        /\ probe.result.found =>
              \E j \in LatestInWindow :
                  /\ \A h \in LatestInWindow : j <= h
                  /\ probe.result.price = probe.series[j].close

\* A series with a point the day after the target, a point five days before
\* it and a point four days before it: the last one is found.
C7_Witness ==
    LET target == FormatDate(probe.target) IN
    /\ probe.done
    /\ probe.result = [found |-> TRUE, price |-> 100]
    /\ \E a \in 1..Len(probe.series), b \in 1..Len(probe.series),
          c \in 1..Len(probe.series) :
          /\ probe.series[a] = Point(target + 1, 0)
          /\ probe.series[b] = Point(target - 5, 0)
          /\ probe.series[c] = Point(target - 4, 100)

\* The future dates of an events list, as a set.
FutureDates(events, today) ==
    {events[j] : j \in {h \in 1..Len(events) : IsFuture(events[h], today)}}

\* C8: the nextDate of a summary is the minimum date among the events dated
\* after today, whatever the order of the list.
C8_NextDateIsEarliest ==
    \A k \in Positions :
        call[k].st = "awaitSet" =>
            \A d \in FutureDates(call[k].earnings, call[k].today) :
                call[k].result.nextDate <= d

\* C9: a summary is produced and written only with at least one move and
\* a next date after the today of the call; every cache entry holds a
\* summary with a next date; a summary is returned only by a call that
\* has written it.
C9_SummaryNeedsMoveAndNextDate ==
    /\ [](\A k \in Positions :
            call[k].st = "awaitSet" =>
                /\ Len(call[k].moves) > 0
                /\ call[k].result.kind = "summary"
                /\ call[k].result.avgMove = avgMoveOf(call[k].moves)
                /\ call[k].result.nextDate # NullDate
                /\ ParseDate(call[k].result.nextDate) > call[k].today
                /\ \E j \in 1..Len(call[k].earnings) :
                      call[k].earnings[j] = call[k].result.nextDate)
    /\ [](\A e \in cache :
            /\ e.value.kind = "summary"
            /\ e.value.nextDate # NullDate
            /\ e.value.nextDate > Today0)
    /\ [][\A e \in cache' \ cache :
            \E k \in Positions :
                /\ call[k].st = "awaitSet"
                /\ e = [key |-> CacheKey(SYMBOLS[k]), value |-> call[k].result]]_vars
    /\ [][\A k \in Positions :
            (/\ Len(call') = Len(call)
             /\ call'[k] # call[k]
             /\ call'[k].result.kind = "summary")
            => \/ call'[k].st = "awaitSet"
               \/ call[k].st = "awaitSet" /\ call'[k].result = call[k].result]_vars

\* The cache holds an entry with tomorrow as next date and a 100 percent move.
C9_Witness ==
    \E e \in cache :
        /\ e.key = CacheKey(1)
        /\ e.value.nextDate = Tomorrow
        /\ e.value.avgMove = 10000

\* C10: a failing cache write settles the call with null, changes no other
\* call and does not stop main; the batch then counts the call in failed
\* and not in successful.
C10_CacheWriteFailure ==
    /\ [][\A k \in Positions :
            (/\ Len(call') = Len(call)
             /\ call[k].st = "awaitSet"
             /\ IsSettled(call'[k])
             /\ call'[k].reason # "stored")
            => /\ call'[k] = SettledCall(NullResult, "storeError")
               /\ \A j \in Positions \ {k} : call'[j] = call[j]
               /\ pc' = pc]_vars
    /\ [][processed' # processed =>
            LET batch == Batch(SYMBOLS, batchSize, i)
                lost == {k \in batch : call[k].reason = "storeError"}
            IN /\ failed' - failed >= Cardinality(lost)
               /\ successful' - successful <= Cardinality(batch \ lost)]_vars

\* A finished run in which the only failure is a cache write: the other
\* call of its group and the call of the next group stored their summaries.
C10_Witness ==
    /\ pc = "done"
    /\ failed = 1
    /\ successful = 2
    /\ \E j \in Positions, k \in Positions, m \in Positions :
          /\ j # k /\ GroupOf(j) = 0 /\ GroupOf(k) = 0 /\ GroupOf(m) = 1
          /\ call[j].reason = "storeError"
          /\ call[k].reason = "stored"
          /\ call[m].reason = "stored"

\* The positions whose processSymbol call is started by the step.
StartedByStep == {k \in 1..Len(call') : StartedNow(k)}

\* C11: main splits the universe into contiguous groups in list order: the
\* positions a step hands to processSymbol are a run i+1 .. i+size that
\* starts at a multiple of the group size, holds exactly batchSize positions
\* when it is not the last group and between 1 and batchSize when it is the
\* last; no position is handed over a second time, and once the run has
\* completed every position has been handed over exactly once.
C11_Partitioning ==
    /\ [][StartedByStep # {} =>
            LET n == Len(SYMBOLS')
                size == Cardinality(StartedByStep)
            IN /\ i' % batchSize = 0
               /\ StartedByStep = {k \in 1..n : i' < k /\ k <= i' + batchSize}
               /\ 1 <= size /\ size <= batchSize
               /\ i' + size < n => size = batchSize
               /\ \A k \in StartedByStep : sent'[k].cal = 1
               /\ \A k \in 1..n : k <= i' => sent'[k].cal = 1
               /\ \A k \in 1..n : k > i' + size => sent'[k].cal = 0]_vars
    /\ [](pc = "done" =>
            /\ Len(sent) = Len(SYMBOLS)
            /\ \A k \in 1..Len(SYMBOLS) : sent[k].cal = 1 /\ IsSettled(call[k]))

\* A universe of three in groups of two has completed: a full group, then a
\* last group of one.
C11_Witness ==
    /\ pc = "done"
    /\ Len(SYMBOLS) = MaxSymbols
    /\ batchSize = MaxBatchSize
    /\ processed = MaxSymbols
    /\ \A k \in 1..Len(SYMBOLS) : sent[k].cal = 1

\* A calendar answer that is not-found, lacks an earnings list, or lists no
\* event.
EmptyCalendar(res) ==
    \/ res.status = 404
    \/ /\ res.status = 200
       /\ res.body.kind = "object"
       /\ ~res.body.hasEarnings \/ res.body.earnings = <<>>

\* C12: a call whose calendar answer is not-found, lacks an earnings list or
\* lists no event returns no summary and leaves the cache without an entry
\* for its symbol; it does so whatever the price history holds, for it never
\* asks for it and never writes.
C12_SkipOnEmptyEarnings ==
    \A k \in 1..Len(heard) :
        EmptyCalendar(heard[k].cal) =>
            /\ IsSettled(call[k])
            /\ call[k].result = NullResult
            /\ call[k].reason = "noEarnings"
            /\ sent[k] = [cal |-> 1, price |-> 0, set |-> 0]
            /\ heard[k].price = NoResponse
            /\ \A e \in cache : e.key # CacheKey(SYMBOLS[k])

\* The calendar answered with an empty events list and the run completed.
C12_Witness ==
    /\ pc = "done"
    /\ heard[1].cal = Response(200, EarningsBody(<<>>))
    /\ failed = 1

\* The number of points of a price answer that is an array.
PointCount(res) == res.body.old + Len(res.body.pts)

\* A price answer that is not-found, is not an array, or has fewer than ten
\* points.
ThinPrices(res) ==
    \/ res.status = 404
    \/ /\ res.status = 200
       /\ res.body.kind \in {"object", "null"}
    \/ /\ res.status = 200
       /\ res.body.kind = "array"
       /\ PointCount(res) < 10

\* C13: a call whose price answer is not-found, is not an array or has fewer
\* than ten points returns no summary and writes nothing to the cache, even
\* with valid earnings events; a series of exactly ten points is not skipped
\* as insufficient.
C13_SkipOnThinPrices ==
    \A k \in 1..Len(heard) :
        /\ ThinPrices(heard[k].price) =>
              /\ IsSettled(call[k])
              /\ call[k].result = NullResult
              /\ call[k].reason \in {"insufficientPrices", "priceError"}
              /\ sent[k].set = 0
              /\ \A e \in cache : e.key # CacheKey(SYMBOLS[k])
        /\ /\ heard[k].price.status = 200
           /\ heard[k].price.body.kind = "array"
           /\ PointCount(heard[k].price) = 10
           => call[k].reason # "insufficientPrices"

\* Valid events, a past one and a future one, met a series of nine points:
\* the run completed with the call counted as failed.
C13_Witness ==
    /\ pc = "done"
    /\ heard[1].cal = Response(200, EarningsBody(<<PastDay, Tomorrow>>))
    /\ heard[1].price.status = 200
    /\ heard[1].price.body.kind = "array"
    /\ PointCount(heard[1].price) = 9
    /\ failed = 1

\* The entries the cache holds under a symbol's key.
EntriesOf(symbol) == {e \in cache : e.key = CacheKey(symbol)}

\* The fields of a summary that do not depend on the time of the run.
Content(r) == <<r.symbol, r.nextDate, r.avgMove>>

\* C14: when processSymbol has run twice for one symbol, both runs with the
\* same reference today, the same calendar answer and the same price answer,
\* and both have stored their summary, the cache holds exactly one entry
\* under the symbol's key; it is the summary of one of the two runs, and the
\* two summaries agree on symbol, nextDate and avgMove (lastUpdated may
\* differ).  No key ever holds two entries.
C14_IdempotentOverwrite ==
    /\ \A e1 \in cache, e2 \in cache : e1.key = e2.key => e1 = e2
    /\ /\ Len(heard) = 2
       /\ SYMBOLS[1] = SYMBOLS[2]
       /\ heard[1] = heard[2]
       /\ call[1].reason = "stored"
       /\ call[2].reason = "stored"
       => /\ Cardinality(EntriesOf(SYMBOLS[1])) = 1
          /\ Content(call[1].result) = Content(call[2].result)
          /\ \A e \in EntriesOf(SYMBOLS[1]) :
                /\ e.value \in {call[1].result, call[2].result}
                /\ e.value.symbol = SYMBOLS[1]
                /\ Content(e.value) = Content(call[1].result)

\* Both runs heard the same data with the same today and stored summaries
\* that differ in lastUpdated.
C14_Witness ==
    /\ pc = "done"
    /\ Len(heard) = 2
    /\ heard[1] = heard[2]
    /\ call[1].reason = "stored"
    /\ call[2].reason = "stored"
    /\ call[1].result.lastUpdated # call[2].result.lastUpdated

\* Call k has heard an events list and a price series long enough for the
\* estimator of lines 93-104 to run over them.
Estimated(k) ==
    /\ heard[k].cal.status = 200
    /\ heard[k].cal.body.kind = "object"
    /\ heard[k].price.status = 200
    /\ heard[k].price.body.kind = "array"
    /\ ~InsufficientPrices(heard[k].price.body)

EventsHeard(k) == heard[k].cal.body.earnings

PointsHeard(k) == heard[k].price.body.pts

\* The events with both prices located and the before-price strictly
\* positive, a located price of 0 counting as located.
Contributing(events, pts) ==
    {j \in 1..Len(events) :
        /\ beforePriceOf(pts, events[j]).found
        /\ afterPriceOf(pts, events[j]).found
        /\ beforePriceOf(pts, events[j]).price > 0}

\* C15: an event contributes a move observation exactly when both prices are
\* located and the before-price is strictly positive, an after-price of 0
\* included: the moves of a call about to store are as many as such events,
\* and a call is skipped for want of moves exactly when there is no such
\* event; an event with a side not found raises no error.
C15_ContributesIffLocated ==
    \A k \in 1..Len(heard) :
        Estimated(k) =>
            LET n == Cardinality(Contributing(EventsHeard(k), PointsHeard(k))) IN
            /\ call[k].st = "awaitSet" => Len(call[k].moves) = n
            /\ call[k].reason = "noMoves" <=> n = 0
            /\ call[k].reason \notin {"priceError", "dateError"}

\* The day of the point findPriceOnDate returns for a target day: the latest
\* day of the series within the LOOKBACK days that end at the target, 0 when
\* there is none.
LocatedDay(pts, target) ==
    LET days == {pts[j].date : j \in 1..Len(pts)}
                \cap ((target - LOOKBACK + 1)..target)
    IN IF days = {} THEN 0 ELSE CHOOSE d \in days : \A e \in days : e <= d

\* C16: for every move the estimator records for an announcement day d, the
\* before-price is the close of a day strictly before d, the after-price the
\* close of a day strictly after d, and the two are not the same day.
C16_PricesStraddleDate ==
    \A k \in 1..Len(heard) :
        Estimated(k) =>
            \A j \in 1..Len(EventsHeard(k)) :
                LET d == EventsHeard(k)[j]
                    pts == PointsHeard(k)
                IN IsValidMove(beforePriceOf(pts, d), afterPriceOf(pts, d)) =>
                       /\ LocatedDay(pts, d - 1) < d
                       /\ LocatedDay(pts, d + 1) > d
                       /\ LocatedDay(pts, d - 1) # LocatedDay(pts, d + 1)

\* A call that has been started and has not settled.
IsPending(c) == c.st \in {"awaitCal", "awaitPrice", "awaitSet"}

\* C17: processed, successful and failed change only when main resumes after
\* a group, all of whose calls have settled, and then by the size of that
\* group; while a call is pending they are as the previous group left them.
\* In every state processed is the total size of the groups main has
\* resumed after: i while a group runs, i + batchSize during the pause,
\* the size of the universe at the end, and so a multiple of batchSize or
\* the size of the universe.
C17_CountersAtBoundaries ==
    /\ [][<<processed, successful, failed>>' # <<processed, successful, failed>> =>
            LET group == {k \in 1..Len(SYMBOLS) : i < k /\ k <= i + batchSize} IN
            /\ pc = "group"
            /\ \A k \in group : IsSettled(call[k])
            /\ call' = call \/ \A k \in group : call'[k] = call[k]
            /\ processed' = processed + Cardinality(group)
            /\ successful' + failed' = processed']_vars
    /\ []((\E k \in 1..Len(call) : IsPending(call[k])) =>
            /\ pc = "group"
            /\ processed = i
            /\ successful + failed = processed)
    /\ [](/\ pc = "group" => processed = i
          /\ pc = "cooldown" => processed = i + batchSize
          /\ pc = "done" => processed = Len(SYMBOLS)
          /\ pc \in {"start", "aborted"} => processed = 0
          /\ processed % batchSize = 0 \/ processed = Len(SYMBOLS))

\* A call of the second group is pending after a first group of two, one
\* of them stored, one skipped.
C17_Witness ==
    /\ pc = "group"
    /\ processed = MaxBatchSize
    /\ successful = 1
    /\ failed = 1
    /\ \E k \in 1..Len(call) : call[k].st = "awaitSet"

\* C18: a symbol's call issues at most one calendar request, at most one
\* price request and at most one cache write.  The price request is issued
\* only by the resumption that took in a calendar with a non-empty events
\* list, the write only by the resumption that took in the price history
\* after it, and a call that has settled (on a failure, a skip or the write's
\* answer) issues nothing more.
C18_NoRetriesFixedOrder ==
    /\ [](\A k \in 1..Len(sent) :
            /\ sent[k].cal <= 1 /\ sent[k].price <= 1 /\ sent[k].set <= 1
            /\ sent[k].set <= sent[k].price /\ sent[k].price <= sent[k].cal
            /\ call[k].reason \in {"calendarError", "noEarnings"} =>
                  sent[k].price = 0
            /\ call[k].reason \in (ErrorReasons \cup SkipReasons) \ {"storeError"} =>
                  sent[k].set = 0)
    /\ [][\A k \in 1..Len(sent) :
            /\ sent'[k].cal # sent[k].cal =>
                  /\ call[k].st = "idle"
                  /\ call'[k].st = "awaitCal"
            /\ sent'[k].price # sent[k].price =>
                  /\ call[k].st = "awaitCal"
                  /\ call'[k].st = "awaitPrice"
                  /\ Len(call'[k].earnings) > 0
            /\ sent'[k].set # sent[k].set =>
                  /\ call[k].st = "awaitPrice"
                  /\ call'[k].st = "awaitSet"
                  /\ call'[k].result.kind = "summary"
            /\ IsSettled(call[k]) => sent'[k] = sent[k] /\ call'[k] = call[k]]_vars

\* Of two calls that have settled, one issued its three requests and
\* stored, the other stopped at a failed calendar fetch.
C18_Witness ==
    \E k \in 1..Len(sent), h \in 1..Len(sent) :
        /\ call[k].reason = "stored"
        /\ sent[k] = [cal |-> 1, price |-> 1, set |-> 1]
        /\ call[h].reason = "calendarError"
        /\ sent[h] = [cal |-> 1, price |-> 0, set |-> 0]

\* C19: with the symbol list obtained and every fetch and write answered in
\* the end, the run reaches the completed state with processed equal to the
\* size of the universe, the empty universe included.  A call that is
\* pending blocks its group: main cannot resume, no call of a later group
\* has been started, and the run is not completed.
C19_Termination ==
    /\ pc \in {"group", "cooldown", "done"}
         ~> (pc = "done" /\ processed = Len(SYMBOLS))
    /\ [](\A k \in 1..Len(call) :
            IsPending(call[k]) =>
                /\ pc = "group"
                /\ ~ENABLED GroupSettled
                /\ \A h \in 1..Len(call) :
                      GroupOf(h) > GroupOf(k) => call[h].st = "idle")
    /\ [](pc = "done" => \A k \in 1..Len(call) : IsSettled(call[k]))

\* A universe of three in groups of one has completed after two pauses.
C19_Witness ==
    /\ pc = "done"
    /\ Len(SYMBOLS) = MaxSymbols
    /\ processed = Len(SYMBOLS)
    /\ cooldowns = MaxSymbols - 1

\* C20: a 404 from the symbol-list provider is fatal.  fetchJSON resolves it
\* to the not-found marker and not to an error, getAllSymbols fails on the
\* marker, and the run has aborted with no universe, no call started, no
\* request sent and nothing written; any other answer whose status is not
\* 200 has aborted the run in the same way.
C20_NotFoundListFatal ==
    /\ listResp.status = 404 =>
          /\ fetchJSON(listResp) = [ok |-> TRUE, value |-> NotFoundMarker]
          /\ ~getAllSymbols(listResp).ok
    /\ listResp.status \notin {200, NoResponse.status} =>
          /\ pc = "aborted"
          /\ SYMBOLS = <<>>
          /\ call = <<>>
          /\ sent = <<>>
          /\ requests = 0
          /\ processed = 0
          /\ cache = {}

\* The symbol list answered 404 and the run has aborted.
C20_Witness ==
    /\ listResp.status = 404
    /\ pc = "aborted"
    /\ call = <<>>

====
